---- MODULE Spec2Model ----
(***************************************************************************)
(* Model of web/docker_django/worker/functions.py: the orchestration layer *)
(* around the CymDIST simulator (module cympy).  The simulator session is  *)
(* modelled by what the code can observe of it: the log of the calls made  *)
(* on it, the replies of its queries, and the attributes written to it.    *)
(*                                                                         *)
(* Python values are records [kind, s, n, d]:                              *)
(*   kind = "str"   a string, s its characters (codes, see Digits)         *)
(*   kind = "num"   a number, the rational n / d                           *)
(*   kind = "none"  None / a missing cell                                  *)
(*   kind = "nan"   a float NaN or infinity                                *)
(*   kind = "raise" not a value: the call raised                           *)
(***************************************************************************)
EXTENDS Integers, Sequences, FiniteSets, TLC

VARIABLES
    op,          \* the function being executed
    pc,          \* its position
    args,        \* its arguments
    locals,      \* its local variables
    ret,         \* the value it returned
    networks,    \* session: what cympy.study.ListNetworks() returns
    nobjs,       \* session: number of devices / nodes of the model
    seed,        \* session: selects what the attribute queries reply
    calls,       \* session: the cympy calls made by the function being executed
    files,       \* the files written to the file system
    heap,        \* the tables (DataFrames) the caller holds, by reference
    passed       \* the contents of the table argument when the call started

vars == <<op, pc, args, locals, ret, networks, nobjs, seed, calls, files, heap, passed>>

-----------------------------------------------------------------------------
(* Bounds of the model *)

MaxLoads == 1
MaxPvs == 1
MaxOutputs == 3
MaxObjs == 2
MaxTables == 3

-----------------------------------------------------------------------------
(* Python values *)

Str(s) == [kind |-> "str", s |-> s, n |-> 0, d |-> 1]
Num(n) == [kind |-> "num", s |-> <<>>, n |-> n, d |-> 1]
Rat(n, d) == [kind |-> "num", s |-> <<>>, n |-> n, d |-> d]
None == [kind |-> "none", s |-> <<>>, n |-> 0, d |-> 1]
NaN == [kind |-> "nan", s |-> <<>>, n |-> 0, d |-> 1]
Raise == [kind |-> "raise", s |-> <<>>, n |-> 0, d |-> 1]

\* Character codes of the strings: 0..9 are the digits, then '.' and a letter.
Dot == 10
Letter == 11

\* bool(x) of Python
Truthy(v) ==
    CASE v.kind = "str" -> Len(v.s) > 0
      [] v.kind = "num" -> v.n # 0
      [] v.kind = "nan" -> TRUE
      [] OTHER -> FALSE

Min(a, b) == IF a <= b THEN a ELSE b

\* Assignment to a local variable: value is computed once, then used by F.
Bind(value, F(_)) == CHOOSE y \in {F(x) : x \in {value}} : TRUE

\* zip(a, b): the pairs up to the shorter list
Zip2(a, b) == [i \in 1..Min(Len(a), Len(b)) |-> <<a[i], b[i]>>]

Zip3(a, b, c) == [i \in 1..Min(Len(a), Min(Len(b), Len(c))) |-> <<a[i], b[i], c[i]>>]

\* x / y under "from __future__ import division": the true quotient
TrueDiv(x, y) == Rat(x, y)

\* int(n / d): truncation toward zero (d > 0)
IntTrunc(n, d) == IF n >= 0 THEN n \div d ELSE -((-n) \div d)

-----------------------------------------------------------------------------
(* The simulator session *)

\* One logged call on cympy.
Call(api, obj, objidx, key, keyidx, val) ==
    [api |-> api, obj |-> obj, objidx |-> objidx, key |-> key, keyidx |-> keyidx, val |-> val]

\* The attribute keywords the code queries, in a fixed order.
Keys ==
    <<"VpuA", "VpuB", "VpuC", "OverloadAmpsA", "OverloadAmpsB", "OverloadAmpsC",
      "MWA", "MWB", "MWC", "MWTOT", "MVARA", "MVARB", "MVARC", "MVARTOT",
      "Distance", "CoordY", "CoordX", "SectionId", "KWA", "KWB", "IA">>

KeyIdx(key) == CHOOSE i \in 1..Len(Keys) : Keys[i] = key

\* What the simulator replies to attribute queries; numbers come as text.
NumericReplies == << Str(<<1, Dot, 5>>), Str(<<0>>), Str(<<7>>), Str(<<1, 2>>) >>

Profiles == <<"numeric", "failing", "blank", "garbled", "native">>

Reply(profile, k) ==
    LET numeric == NumericReplies[(k % Len(NumericReplies)) + 1] IN
    CASE profile = "numeric" -> numeric
      [] profile = "blank"   -> IF k % 2 = 0 THEN Str(<<>>) ELSE numeric
      [] profile = "failing" -> IF k % 3 = 1 THEN Raise ELSE numeric
      [] profile = "garbled" -> IF k % 3 = 2 THEN Str(<<Letter>>) ELSE numeric
      [] OTHER               -> IF k % 2 = 0 THEN Num(0) ELSE Num(k)

\* The keywords that describe the model; the others are results of the solver.
TopologyKeys == {"Distance", "CoordY", "CoordX", "SectionId"}

\* sd selects the model (sd % number of profiles) and, for the results, how
\* the solver left them (sd \div number of profiles).
ProfileOf(sd, id, key) ==
    LET model == sd % Len(Profiles)
        results == IF key \in TopologyKeys THEN 0 ELSE sd \div Len(Profiles)
    IN  Profiles[((model + results + id) % Len(Profiles)) + 1]

\* cympy.study.QueryInfoNode(key, id) and QueryInfoDevice(key, number, type):
\* the reply for object id, or the call raises when there is no such object.
QueryInfo(sd, n, key, id) ==
    IF id \in 1..n THEN Reply(ProfileOf(sd, id, key), KeyIdx(key)) ELSE Raise

\* The results a load-flow run on a newly opened model may leave in the session.
SolverOutcomes == 0..(Len(Profiles) - 1)

\* The results a load allocation may leave: those before it, or other ones.
ReallocationOutcomes(sd) == {sd, (sd + Len(Profiles)) % (2 * Len(Profiles))}

\* The phases of the sections of the model ("Phase" of a device on them).
SectionPhases(section) ==
    CASE section = "s1" -> <<"A", "B", "C">>
      [] section = "s2" -> <<"A">>
      [] OTHER -> <<>>

Sections == <<"s1", "s2">>

-----------------------------------------------------------------------------
(* fmu_wrapper: its helper functions *)

\* _input_voltages: the dictionary name -> value; a repeated name keeps its
\* last value.
InputVoltages(voltage_names, voltage_values) ==
    LET z == Zip2(voltage_names, voltage_values)
        last(nm) == CHOOSE i \in 1..Len(z) :
                        z[i][1] = nm /\ \A j \in (i+1)..Len(z) : z[j][1] # nm
    IN  [nm \in {z[i][1] : i \in 1..Len(z)} |-> z[last(nm)][2]]

\* _input_loads: one dictionary per (section, parameter, value)
InputLoads(load_sections, load_parameter_names, load_values) ==
    LET z == Zip3(load_sections, load_parameter_names, load_values)
    IN  [i \in 1..Len(z) |->
            [section_id |-> z[i][1], active_power |-> z[i][3], parameter_name |-> z[i][2]]]

\* _input_pvs: one dictionary per (section, parameter, value)
InputPvs(pv_sections, pv_parameter_names, pv_values) ==
    LET z == Zip3(pv_sections, pv_parameter_names, pv_values)
    IN  [i \in 1..Len(z) |->
            [section_id |-> z[i][1], generation |-> z[i][3], parameter_name |-> z[i][2]]]

\* write_result in ['True', 'true', '1']
WriteResultFlag(write_result) == write_result \in {"True", "true", "1"}

VoltsPerKilovolt == 1000

\* (mutant) value / 1000 without "from __future__ import division"
Kilovolts_FloorDivision(value) == Rat(value \div VoltsPerKilovolt, 1)

\* The voltage written for an input in V: value / 1000
Kilovolts(value) == TrueDiv(value, VoltsPerKilovolt)

\* The three source voltages the code writes: input name, attribute written.
VoltageSettings ==
    << <<"VMAG_A", "Sources[0].EquivalentSourceModels[0].EquivalentSource.OperatingVoltage1">>,
       <<"VMAG_B", "Sources[0].EquivalentSourceModels[0].EquivalentSource.OperatingVoltage2">>,
       <<"VMAG_C", "Sources[0].EquivalentSourceModels[0].EquivalentSource.OperatingVoltage3">> >>

\* The SetValueTopo calls of _set_voltages / load_allocation from setting k on:
\* each reads the dictionary, then networks[0], then calls; a missing name
\* (KeyError) or an empty list of networks (IndexError) raises and ends them.
RECURSIVE SetValueTopoCalls(_, _, _)
SetValueTopoCalls(voltages, nets, k) ==
    IF k > Len(VoltageSettings) THEN [calls |-> <<>>, raised |-> FALSE]
    ELSE IF VoltageSettings[k][1] \notin DOMAIN voltages \/ Len(nets) = 0
         THEN [calls |-> <<>>, raised |-> TRUE]
         ELSE LET rest == SetValueTopoCalls(voltages, nets, k + 1)
                  this == Call("SetValueTopo", nets[1], 0, VoltageSettings[k][2], 0,
                               Kilovolts(voltages[VoltageSettings[k][1]]))
              IN  [calls |-> <<this>> \o rest.calls, raised |-> rest.raised]

\* _set_voltages
SetVoltages(voltages, nets) ==
    LET r == SetValueTopoCalls(voltages, nets, 1)
    IN  [calls |-> <<Call("ListNetworks", "", 0, "", 0, None)>> \o r.calls,
         raised |-> r.raised]

CustomerLoadDeviceType == 14

\* The attribute _add_loads writes the power of phase `phase` to.
LoadValueKey(parameter_name) ==
    "CustomerLoads[0].CustomerLoadModels[0].CustomerLoadValues[phase].LoadValue.KW"

\* The SetValueDevice calls of one load: one per phase.
LoadPhaseCalls(load, index, phases) ==
    [p \in 1..Len(phases) |->
        Call("SetValueDevice", "MY_LOAD_", index, LoadValueKey(load.parameter_name), p - 1,
             TrueDiv(load.active_power, Len(phases)))]

\* _add_loads from load k on (index k - 1): add the device, query its phases,
\* divide the power between them (ZeroDivisionError when it has none).
RECURSIVE AddLoads(_, _)
AddLoads(loads, k) ==
    IF k > Len(loads) THEN [calls |-> <<>>, raised |-> FALSE]
    ELSE LET load == loads[k]
             phases == SectionPhases(load.section_id)
             head == << Call("AddDevice", "MY_LOAD_", k - 1, load.section_id, 0,
                             Num(CustomerLoadDeviceType)),
                        Call("QueryInfoDevice", "MY_LOAD_", k - 1, "Phase", 0, None) >>
         IN  IF Len(phases) = 0
             THEN [calls |-> head, raised |-> TRUE]
             ELSE LET rest == AddLoads(loads, k + 1)
                  IN  [calls |-> head \o LoadPhaseCalls(load, k - 1, phases) \o rest.calls,
                       raised |-> rest.raised]

PanelsInSeries == 23
PanelKwHundredths == 8
PvMarginKw == 30

\* int((generation + 30) / (23 * 0.08))
PvNp(generation) ==
    IntTrunc((generation + PvMarginKw) * 100, PanelsInSeries * PanelKwHundredths)

\* The attributes _add_pvs writes on a new PV device, with their values.
PvSettings(pv) ==
    << <<"Np", Num(PvNp(pv.generation))>>,
       <<"GenerationModels[0].ActiveGeneration", Num(pv.generation)>>,
       <<"Inverter.ActivePowerRating", Num(pv.generation)>>,
       <<"Inverter.ReactivePowerRating", Num(pv.generation)>> >>

\* _add_pvs
AddPvs(pvs) ==
    LET one(k) ==
            LET set == PvSettings(pvs[k])
            IN  <<Call("AddDevice", "my_pv_", k - 1, pvs[k].section_id, 0, Str(<<>>))>>
                \o [j \in 1..Len(set) |->
                       Call("Device.SetValue", "my_pv_", k - 1, set[j][1], 0, set[j][2])]
        RECURSIVE all(_)
        all(k) == IF k > Len(pvs) THEN <<>> ELSE one(k) \o all(k + 1)
    IN  all(1)

\* _write_results: the files on the file system afterwards (the pickle dump is
\* commented out)
WriteResults(model_filename, fs) == fs

\* (mutant) _output_values without the test "if temp"
OutputValue_KeepFalsy(reply, DEFAULT_VALUE) ==
    IF reply.kind = "raise" THEN DEFAULT_VALUE ELSE reply

\* One entry of _output_values
OutputValue(reply, DEFAULT_VALUE) ==
    IF reply.kind = "raise" THEN DEFAULT_VALUE
    ELSE IF Truthy(reply) THEN reply ELSE DEFAULT_VALUE

\* _output_values
OutputValues(output_nodes, output_names, DEFAULT_VALUE, sd, n) ==
    LET z == Zip2(output_nodes, output_names)
    IN  [i \in 1..Len(z) |-> OutputValue(QueryInfo(sd, n, z[i][2], z[i][1]), DEFAULT_VALUE)]

\* The QueryInfoNode calls _output_values makes.
OutputQueries(output_nodes, output_names) ==
    LET z == Zip2(output_nodes, output_names)
    IN  [i \in 1..Len(z) |-> Call("QueryInfoNode", "", z[i][1], z[i][2], 0, None)]

-----------------------------------------------------------------------------
(* fmu_wrapper: its steps *)

\* No table: what a call that raised leaves its caller with
NoTable == 0

NoArgs == [none |-> TRUE]

\* Lines 148-163: the inputs are processed, then the model is opened.
FmuOpen ==
    /\ op = "fmu_wrapper" /\ pc = "start"
    /\ locals' =
         [voltages |-> InputVoltages(args.voltage_names, args.voltage_values),
          loads |-> IF Len(args.load_sections) > 0
                    THEN InputLoads(args.load_sections, args.load_parameter_names,
                                    args.load_values)
                    ELSE <<>>,
          pvs |-> IF Len(args.pv_sections) > 0
                  THEN InputPvs(args.pv_sections, args.pv_parameter_names, args.pv_values)
                  ELSE <<>>,
          write_result |-> WriteResultFlag(args.write_result)]
    /\ calls' = Append(calls, Call("Open", args.model_filename, 0, "", 0, None))
    /\ pc' = "opened"
    /\ UNCHANGED <<op, args, ret, networks, nobjs, seed, files, heap, passed>>

\* Line 166: _set_voltages(voltages)
FmuSetVoltages ==
    /\ op = "fmu_wrapper" /\ pc = "opened"
    /\ LET r == SetVoltages(locals.voltages, networks)
       IN  /\ calls' = calls \o r.calls
           /\ pc' = IF r.raised THEN "raised" ELSE "voltages_set"
    /\ UNCHANGED <<op, args, locals, ret, networks, nobjs, seed, files, heap, passed>>

\* Lines 169-170: if loads: _add_loads(loads)
FmuAddLoads ==
    /\ op = "fmu_wrapper" /\ pc = "voltages_set"
    /\ LET r == IF Len(locals.loads) > 0 THEN AddLoads(locals.loads, 1)
                ELSE [calls |-> <<>>, raised |-> FALSE]
       IN  /\ calls' = calls \o r.calls
           /\ pc' = IF r.raised THEN "raised" ELSE "loads_added"
    /\ UNCHANGED <<op, args, locals, ret, networks, nobjs, seed, files, heap, passed>>

\* Lines 173-174: if pvs: _add_pvs(pvs)
FmuAddPvs ==
    /\ op = "fmu_wrapper" /\ pc = "loads_added"
    /\ calls' = calls \o (IF Len(locals.pvs) > 0 THEN AddPvs(locals.pvs) ELSE <<>>)
    /\ pc' = "pvs_added"
    /\ UNCHANGED <<op, args, locals, ret, networks, nobjs, seed, files, heap, passed>>

\* (mutant) lf.Run() left out
FmuRunLoadFlow_Skipped ==
    /\ op = "fmu_wrapper" /\ pc = "pvs_added"
    /\ seed' \in SolverOutcomes
    /\ pc' = "flow_run"
    /\ UNCHANGED <<op, args, locals, ret, networks, nobjs, calls, files, heap, passed>>

\* Lines 177-178: lf = cympy.sim.LoadFlow(); lf.Run()
FmuRunLoadFlow ==
    /\ op = "fmu_wrapper" /\ pc = "pvs_added"
    /\ calls' = Append(calls, Call("LoadFlow.Run", "", 0, "", 0, None))
    /\ seed' \in SolverOutcomes
    /\ pc' = "flow_run"
    /\ UNCHANGED <<op, args, locals, ret, networks, nobjs, files, heap, passed>>

\* Lines 181-182: if write_result: _write_results(model_filename)
FmuWriteResults ==
    /\ op = "fmu_wrapper" /\ pc = "flow_run"
    /\ files' = IF locals.write_result THEN WriteResults(args.model_filename, files)
                ELSE files
    /\ pc' = "results_written"
    /\ UNCHANGED <<op, args, locals, ret, networks, nobjs, seed, calls, heap, passed>>

\* Lines 185-186: output = _output_values(...); return output
FmuOutput ==
    /\ op = "fmu_wrapper" /\ pc = "results_written"
    /\ ret' = OutputValues(args.output_nodes, args.output_names, Num(0), seed, nobjs)
    /\ calls' = calls \o OutputQueries(args.output_nodes, args.output_names)
    /\ pc' = "done"
    /\ UNCHANGED <<op, args, locals, networks, nobjs, seed, files, heap, passed>>

NextFmu ==
    \/ FmuOpen
    \/ FmuSetVoltages
    \/ FmuAddLoads
    \/ FmuAddPvs
    \/ FmuRunLoadFlow
    \/ FmuWriteResults
    \/ FmuOutput

\* The first k elements of the endless repetition of pattern
Cyc(pattern, k) == [i \in 1..k |-> pattern[((i - 1) % Len(pattern)) + 1]]

FullVoltageNames == <<"VMAG_A", "VMAG_B", "VMAG_C", "VANG_A", "VANG_B", "VANG_C">>

\* The (voltage_names, voltage_values) the calls are tried with
VoltageInputs ==
    { <<FullVoltageNames, <<2520, 2400, 2300, 0, -120, 120>> >>,
      <<FullVoltageNames, <<2520, 2400, 2300, 30, 30, 30>> >>,
      <<FullVoltageNames, <<7200, 0, 12470, 0, -120, 120>> >>,
      << <<"VMAG_A", "VMAG_B", "VANG_A">>, <<2520, 2400, 0>> >>,
      << <<"VMAG_A", "VMAG_B", "VMAG_C", "VMAG_A">>, <<2520, 2400, 2300, 7200>> >> }

ParameterPatterns == { <<"KW">>, <<"KVAR", "KW">> }

\* The (load_sections, load_parameter_names, load_values) they are tried with
LoadInputs ==
    { <<Cyc(sec, k), Cyc(par, k), Cyc(<<100, -50>>, k)>> :
        k \in 0..MaxLoads, sec \in {Sections, <<"s3">>}, par \in ParameterPatterns }

\* The (pv_sections, pv_parameter_names, pv_values) they are tried with
PvInputs ==
    { <<Cyc(Sections, k), Cyc(par, k), Cyc(<<100, -40>>, k)>> :
        k \in 0..MaxPvs, par \in ParameterPatterns }

\* The (output_nodes, output_names) they are tried with: equal and unequal lengths
OutputInputs ==
    { <<Cyc([i \in 1..MaxObjs |-> i], k[1]), Cyc(<<"KWA", "KWB", "IA">>, k[2])>> :
        k \in {x \in (0..MaxOutputs) \X (0..MaxOutputs) : x[1] - x[2] \in {-1, 0, 1}} }

WriteResultInputs == {"True", "true", "1", "False"}

NetworkLists == { <<"feeder1", "feeder2">>, <<>> }

InitFmu ==
    /\ op = "fmu_wrapper" /\ pc = "start"
    /\ \E v \in VoltageInputs, l \in LoadInputs, p \in PvInputs, o \in OutputInputs,
          w \in WriteResultInputs :
          args = [model_filename |-> "BU0001.sxst",
                  voltage_names |-> v[1], voltage_values |-> v[2],
                  load_sections |-> l[1], load_parameter_names |-> l[2], load_values |-> l[3],
                  pv_sections |-> p[1], pv_parameter_names |-> p[2], pv_values |-> p[3],
                  output_nodes |-> o[1], output_names |-> o[2], write_result |-> w]
    /\ locals = NoArgs
    /\ ret = <<>>
    /\ networks \in NetworkLists
    /\ nobjs \in (MaxObjs - 1)..MaxObjs
    /\ seed = 0
    /\ calls = <<>>
    /\ files = {}
    /\ heap = <<>>
    /\ passed = <<>>

-----------------------------------------------------------------------------
(* load_allocation *)

DemandNames == <<"P_A", "Q_A", "P_B", "Q_B", "P_C", "Q_C">>

\* Lines 329-345: the Meter object filled from values (a missing name raises)
LaBuildDemand ==
    /\ op = "load_allocation" /\ pc = "start"
    /\ IF \A i \in 1..Len(DemandNames) : DemandNames[i] \in DOMAIN args.values
       THEN /\ locals' =
                 [demand |->
                    [IsTotalDemand |-> FALSE,
                     DemandA |-> [Value1 |-> args.values["P_A"], Value2 |-> args.values["Q_A"]],
                     DemandB |-> [Value1 |-> args.values["P_B"], Value2 |-> args.values["Q_B"]],
                     DemandC |-> [Value1 |-> args.values["P_C"], Value2 |-> args.values["Q_C"]],
                     LoadValueType |-> "KW_KVAR"]]
            /\ pc' = "demand_built"
       ELSE /\ locals' = locals
            /\ pc' = "raised"
    /\ UNCHANGED <<op, args, ret, networks, nobjs, seed, calls, files, heap, passed>>

\* Lines 348-359: the demand of the first network is set, then its voltages
LaSetDemandAndVoltages ==
    /\ op = "load_allocation" /\ pc = "demand_built"
    /\ LET list == <<Call("ListNetworks", "", 0, "", 0, None)>>
           r == SetValueTopoCalls(args.values, networks, 1)
       IN  IF Len(networks) = 0
           THEN /\ calls' = calls \o list
                /\ pc' = "raised"
           ELSE /\ calls' = calls \o list
                       \o <<Call("LoadAllocation.SetDemand", networks[1], 0, "", 0, None)>>
                       \o r.calls
                /\ pc' = IF r.raised THEN "raised" ELSE "inputs_set"
    /\ UNCHANGED <<op, args, locals, ret, networks, nobjs, seed, files, heap, passed>>

\* Line 362: la.Run([networks[0]])
LaRun ==
    /\ op = "load_allocation" /\ pc = "inputs_set"
    /\ calls' = Append(calls, Call("LoadAllocation.Run", networks[1], 0, "", 0, None))
    /\ seed' \in ReallocationOutcomes(seed)
    /\ pc' = "done"
    /\ UNCHANGED <<op, args, locals, ret, networks, nobjs, files, heap, passed>>

\* The dictionary with the given names, the k-th name having value base + k
Dict(names, base) ==
    [nm \in {names[i] : i \in 1..Len(names)} |->
        base + (CHOOSE i \in 1..Len(names) : names[i] = nm)]

LaNames == DemandNames \o <<"VMAG_A", "VMAG_B", "VMAG_C">>

\* The values dictionaries load_allocation is tried with
LaValueInputs ==
    { Dict(LaNames, 2500), Dict(LaNames, 7200),
      Dict(SubSeq(LaNames, 1, 5) \o SubSeq(LaNames, 7, 9), 2500),
      Dict(SubSeq(LaNames, 1, 7) \o SubSeq(LaNames, 9, 9), 2500) }

InitLa ==
    /\ op = "load_allocation" /\ pc = "start"
    /\ args \in {[values |-> v] : v \in LaValueInputs}
    /\ locals = NoArgs
    /\ ret = <<>>
    /\ networks \in NetworkLists \cup { <<"feeder2", "feeder1">> }
    /\ nobjs = MaxObjs
    /\ seed = 0
    /\ calls = <<>>
    /\ files = {}
    /\ heap = <<>>
    /\ passed = <<>>

NextLa == LaBuildDemand \/ LaSetDemandAndVoltages \/ LaRun

-----------------------------------------------------------------------------
(* add_device, add_pv *)

PhotovoltaicType == 45

\* cympy.study.AddDevice(name, type, section): the new device, whose
\* attributes hold what the simulator gives a new device of that type.
NewDevice(device_name, device_type, section_id, defaults) ==
    [name |-> device_name, device_type |-> device_type, section_id |-> section_id,
     attrs |-> defaults]

\* add_device
AddDevice(device_name, device_type, section_id, defaults) ==
    NewDevice(device_name, device_type, section_id, defaults)

\* device.SetValue(value, key)
DeviceSetValue(device, value, key) ==
    [device EXCEPT !.attrs = [k \in DOMAIN device.attrs \cup {key} |->
                                 IF k = key THEN value ELSE device.attrs[k]]]

\* add_pv: the device it returns
AddPvDevice(device_name, section_id, ns, np, location, defaults) ==
    LET my_pv == AddDevice(device_name, PhotovoltaicType, section_id, defaults)
    IN  DeviceSetValue(my_pv, location, "Location")

\* What the simulator may give a new photovoltaic device.
PvDefaults ==
    { [Ns |-> s, Np |-> p, Location |-> l] : s \in {1, 100}, p \in {1, 100}, l \in {"To"} }

AddPv ==
    /\ op = "add_pv" /\ pc = "start"
    /\ \E defaults \in PvDefaults :
         ret' = AddPvDevice(args.device_name, args.section_id, args.ns, args.np,
                            args.location, defaults)
    /\ calls' = calls \o
         << Call("AddDevice", args.device_name, 0, args.section_id, 0, Num(PhotovoltaicType)),
            Call("Device.SetValue", args.device_name, 0, "Location", 0, None) >>
    /\ pc' = "done"
    /\ UNCHANGED <<op, args, locals, networks, nobjs, seed, files, heap, passed>>

InitAddPv ==
    /\ op = "add_pv" /\ pc = "start"
    /\ args \in [device_name : {"pv1"}, section_id : {"s1", "s2"}, ns : {100, 5},
                 np : {100, 7}, location : {"To", "From"}]
    /\ locals = NoArgs
    /\ ret = <<>>
    /\ networks = <<"feeder1">>
    /\ nobjs = MaxObjs
    /\ seed = 0
    /\ calls = <<>>
    /\ files = {}
    /\ heap = <<>>
    /\ passed = <<>>

-----------------------------------------------------------------------------
(* The operations that drive the simulation *)

InitSim == InitFmu \/ InitLa \/ InitAddPv

NextSim == NextFmu \/ NextLa \/ AddPv

SpecSim == InitSim /\ [][NextSim]_vars

-----------------------------------------------------------------------------
(* Tables (pandas DataFrames): a table is the sequence of its rows, a row   *)
(* has its index label and its cells by column name.                        *)

\* (mutant) the frame itself instead of a copy
FrameAlias(h, ref) == [heap |-> h, ref |-> ref]

\* frame.copy(): a new table with the same contents
FrameCopy(h, ref) == [heap |-> Append(h, h[ref]), ref |-> Len(h) + 1]

SetCell(cells, col, v) ==
    [c \in DOMAIN cells \cup {col} |-> IF c = col THEN v ELSE cells[c]]

\* table[col] = [v] * len(table): the column is created, or reset if it exists
WithColumn(table, col, v) ==
    [i \in 1..Len(table) |-> [table[i] EXCEPT !.cells = SetCell(@, col, v)]]

\* table.loc[label, col] = v
LocSet(table, label, col, v) ==
    [i \in 1..Len(table) |->
        IF table[i].Index = label
        THEN [table[i] EXCEPT !.cells = SetCell(@, col, v)]
        ELSE table[i]]

RECURSIVE WithColumns(_, _, _, _)
WithColumns(table, specs, v, k) ==
    IF k > Len(specs) THEN table
    ELSE Bind(WithColumn(table, specs[k][1], v),
              LAMBDA created : WithColumns(created, specs, v, k + 1))

\* (mutant) the loop with each query in try/except, 0 left on an exception
RECURSIVE FillCells_Swallowing(_, _, _, _, _, _, _, _, _, _)
FillCells_Swallowing(h, vref, rows, specs, api, idcols, sd, n, r, c) ==
    IF r > Len(rows) THEN [heap |-> h, raised |-> FALSE, calls |-> <<>>]
    ELSE IF c > Len(specs)
    THEN FillCells_Swallowing(h, vref, rows, specs, api, idcols, sd, n, r + 1, 1)
    ELSE IF \E i \in 1..Len(idcols) : idcols[i] \notin DOMAIN rows[r].cells
    THEN [heap |-> h, raised |-> TRUE, calls |-> <<>>]
    ELSE LET id == rows[r].cells[idcols[1]].n
             reply == QueryInfo(sd, n, specs[c][2], id)
             value == IF reply.kind = "raise" THEN Num(0) ELSE reply
             this == Call(api, "", id, specs[c][2], 0, None)
             rest == FillCells_Swallowing(
                        [h EXCEPT ![vref] = LocSet(@, rows[r].Index, specs[c][1], value)],
                        vref, rows, specs, api, idcols, sd, n, r, c + 1)
         IN  [rest EXCEPT !.calls = <<this>> \o @]

\* The loop "for row in frame.itertuples(): table.loc[row.Index, col] = query"
\* over the rows from r and the (column, keyword) pairs from c on.  A row
\* without the columns the query reads (AttributeError) and a query that
\* raises end it: nothing catches the exception.
RECURSIVE FillCells(_, _, _, _, _, _, _, _, _, _)
FillCells(h, vref, rows, specs, api, idcols, sd, n, r, c) ==
    IF r > Len(rows) THEN [heap |-> h, raised |-> FALSE, calls |-> <<>>]
    ELSE IF c > Len(specs) THEN FillCells(h, vref, rows, specs, api, idcols, sd, n, r + 1, 1)
    ELSE IF \E i \in 1..Len(idcols) : idcols[i] \notin DOMAIN rows[r].cells
    THEN [heap |-> h, raised |-> TRUE, calls |-> <<>>]
    ELSE LET id == rows[r].cells[idcols[1]].n
             reply == QueryInfo(sd, n, specs[c][2], id)
             this == Call(api, "", id, specs[c][2], 0, None)
         IN  IF reply.kind = "raise"
             THEN [heap |-> h, raised |-> TRUE, calls |-> <<this>>]
             ELSE LET rest == FillCells(
                                 [h EXCEPT ![vref] = LocSet(@, rows[r].Index, specs[c][1], reply)],
                                 vref, rows, specs, api, idcols, sd, n, r, c + 1)
                  IN  [rest EXCEPT !.calls = <<this>> \o @]

RECURSIVE Pow10(_)
Pow10(k) == IF k = 0 THEN 1 ELSE 10 * Pow10(k - 1)

\* The digits of s[1..k] read as a decimal integer, the point skipped
RECURSIVE DigitsValue(_, _)
DigitsValue(s, k) ==
    IF k = 0 THEN 0
    ELSE IF s[k] = Dot THEN DigitsValue(s, k - 1)
    ELSE DigitsValue(s, k - 1) * 10 + s[k]

\* float(x): a string of digits with at most one point is parsed, another
\* string raises ValueError, None raises TypeError, a number is itself.
Float(x) ==
    CASE x.kind = "num" -> x
      [] x.kind = "nan" -> x
      [] x.kind = "str" ->
            LET s == x.s
                points == {i \in 1..Len(s) : s[i] = Dot}
            IN  IF /\ \A i \in 1..Len(s) : s[i] \in 0..Dot
                   /\ Cardinality(points) <= 1
                   /\ \E i \in 1..Len(s) : s[i] # Dot
                THEN Rat(DigitsValue(s, Len(s)),
                         IF points = {} THEN 1
                         ELSE Pow10(Len(s) - (CHOOSE i \in points : TRUE)))
                ELSE Raise
      [] OTHER -> Raise

\* (mutant) the cast without the division
CastCell_NoDivision(x, divisor, identical) ==
    IF x.kind = "str" /\ x.s = <<>> /\ identical THEN None ELSE Float(x)

\* lambda x: None if x is '' else float(x) / divisor.  `identical` tells
\* whether the interpreter holds the empty string it was given as the same
\* object as the literal ''; if not, float('') raises.
CastCell(x, divisor, identical) ==
    IF x.kind = "str" /\ x.s = <<>> /\ identical THEN None
    ELSE LET f == Float(x)
         IN  IF f.kind = "num" THEN Rat(f.n, f.d * divisor) ELSE f

\* table[col] = table[col].apply(lambda ...)
CastColumn(table, col, divisor, identical) ==
    LET cast(i) == CastCell(table[i].cells[col], divisor, identical)
    IN  IF \E i \in 1..Len(table) : cast(i).kind = "raise"
        THEN [table |-> table, raised |-> TRUE]
        ELSE [table |-> [i \in 1..Len(table) |->
                            [table[i] EXCEPT !.cells = SetCell(@, col, cast(i))]],
              raised |-> FALSE]

\* The casts of the columns of specs from k on, each by its divisor (0: none)
RECURSIVE CastColumns(_, _, _, _)
CastColumns(table, specs, identical, k) ==
    IF k > Len(specs) THEN [table |-> table, raised |-> FALSE]
    ELSE IF specs[k][3] = 0 THEN CastColumns(table, specs, identical, k + 1)
    ELSE Bind(CastColumn(table, specs[k][1], specs[k][3], identical),
              LAMBDA one : IF one.raised THEN one
                           ELSE CastColumns(one.table, specs, identical, k + 1))

\* The body shared by the query functions: copy the frame, create the result
\* columns holding 0, fill them row by row, then cast them.
\* specs: <<column, keyword, divisor>> in the order of the code.
QueryTable(h, ref, specs, api, idcols, sd, n, identical) ==
    Bind(FrameCopy(h, ref), LAMBDA copy :
    Bind([copy.heap EXCEPT ![copy.ref] = WithColumns(@, specs, Num(0), 1)], LAMBDA zeroed :
    Bind(FillCells(zeroed, copy.ref, h[ref], specs, api, idcols, sd, n, 1, 1), LAMBDA filled :
    Bind(CastColumns(filled.heap[copy.ref], specs, identical, 1), LAMBDA cast :
        [heap |-> [filled.heap EXCEPT ![copy.ref] = cast.table],
         ref |-> copy.ref,
         raised |-> filled.raised \/ cast.raised,
         calls |-> filled.calls]))))

DeviceIdColumns == <<"device_number", "device_type_id">>
NodeIdColumns == <<"node_id">>

LatitudeDivisor == 126000
LongitudeDivisor == 100000

VoltageColumns ==
    << <<"voltage_A", "VpuA", 1>>, <<"voltage_B", "VpuB", 1>>, <<"voltage_C", "VpuC", 1>> >>

\* get_voltage(frame, is_node)
GetVoltageTable(h, ref, is_node, sd, n, identical) ==
    IF is_node
    THEN QueryTable(h, ref, VoltageColumns, "QueryInfoNode", NodeIdColumns, sd, n, identical)
    ELSE QueryTable(h, ref, VoltageColumns, "QueryInfoDevice", DeviceIdColumns, sd, n, identical)

OverloadColumns ==
    << <<"overload_A", "OverloadAmpsA", 1>>, <<"overload_B", "OverloadAmpsB", 1>>,
       <<"overload_C", "OverloadAmpsC", 1>> >>

\* get_overload(devices)
GetOverloadTable(h, ref, sd, n, identical) ==
    QueryTable(h, ref, OverloadColumns, "QueryInfoDevice", DeviceIdColumns, sd, n, identical)

LoadColumns ==
    << <<"MWA", "MWA", 1>>, <<"MWB", "MWB", 1>>, <<"MWC", "MWC", 1>>, <<"MWTOT", "MWTOT", 1>>,
       <<"MVARA", "MVARA", 1>>, <<"MVARB", "MVARB", 1>>, <<"MVARC", "MVARC", 1>>,
       <<"MVARTOT", "MVARTOT", 1>> >>

\* get_load(devices)
GetLoadTable(h, ref, sd, n, identical) ==
    QueryTable(h, ref, LoadColumns, "QueryInfoDevice", DeviceIdColumns, sd, n, identical)

DistanceColumns == << <<"distance", "Distance", 1>> >>

\* get_distance(devices)
GetDistanceTable(h, ref, sd, n, identical) ==
    QueryTable(h, ref, DistanceColumns, "QueryInfoDevice", DeviceIdColumns, sd, n, identical)

\* The columns of get_coordinates in the order they are created; the loop
\* fills latitude, longitude, then section_id, which is not cast.
CoordinateColumns ==
    << <<"latitude", "CoordY", LatitudeDivisor>>, <<"longitude", "CoordX", LongitudeDivisor>>,
       <<"section_id", "SectionId", 0>> >>

\* get_coordinates(devices)
GetCoordinatesTable(h, ref, sd, n, identical) ==
    QueryTable(h, ref, CoordinateColumns, "QueryInfoDevice", DeviceIdColumns, sd, n, identical)

NodeColumns ==
    << <<"section_id", "SectionId", 0>>, <<"latitude", "CoordY", LatitudeDivisor>>,
       <<"longitude", "CoordX", LongitudeDivisor>>, <<"distance", "Distance", 1>> >>

Object(i) == [kind |-> "object", s |-> <<>>, n |-> i, d |-> 1]

\* list_nodes(): the nodes of the model, then their attributes as get_* do
ListNodesTable(h, sd, n, identical) ==
    LET nodes == [i \in 1..n |->
                    [Index |-> i - 1,
                     cells |-> [c \in {"node_object", "node_id"} |->
                                  IF c = "node_id" THEN Num(i) ELSE Object(i)]]]
        ref == Len(h) + 1
    IN  Bind(Append(h, WithColumns(nodes, NodeColumns, Num(0), 1)), LAMBDA zeroed :
        Bind(FillCells(zeroed, ref, nodes, NodeColumns, "QueryInfoNode", NodeIdColumns,
                       sd, n, 1, 1), LAMBDA filled :
        Bind(CastColumns(filled.heap[ref], NodeColumns, identical, 1), LAMBDA cast :
            [heap |-> [filled.heap EXCEPT ![ref] = cast.table],
             ref |-> ref,
             raised |-> filled.raised \/ cast.raised,
             calls |-> <<Call("ListNodes", "", 0, "", 0, None)>> \o filled.calls])))

\* The type of device i of the model
DeviceTypeOf(i) == IF i % 2 = 1 THEN CustomerLoadDeviceType ELSE PhotovoltaicType

\* list_devices(device_type): the devices of the model, or those of one type
\* (device_type = 0 stands for False); the name of the type comes from the
\* table of module lookup and is kept as an opaque string.
ListDevicesTable(h, device_type, n) ==
    LET ids == SelectSeq([i \in 1..n |-> i],
                         LAMBDA i : device_type = 0 \/ DeviceTypeOf(i) = device_type)
        devices == [k \in 1..Len(ids) |->
                      [Index |-> k - 1,
                       cells |-> [c \in {"device", "device_type_id", "device_number",
                                         "device_type"} |->
                                    CASE c = "device" -> Object(ids[k])
                                      [] c = "device_type_id" -> Num(DeviceTypeOf(ids[k]))
                                      [] c = "device_number" -> Num(ids[k])
                                      [] OTHER -> Str(<<Letter>>)]]]
    IN  [heap |-> Append(h, devices), ref |-> Len(h) + 1, raised |-> FALSE,
         calls |-> <<Call("ListDevices", "", 0, "", 0, Num(device_type))>>]

\* Arithmetic of get_unbalanced_line on the cast cells (d > 0 throughout)
IsNumber(v) == v.kind = "num"

Abs(x) == IF x < 0 THEN -x ELSE x

Inf == [kind |-> "inf", s |-> <<>>, n |-> 0, d |-> 1]

\* a > b of Python floats: every comparison with NaN is false
Greater(a, b) ==
    CASE a.kind = "num" /\ b.kind = "num" -> a.n * b.d > b.n * a.d
      [] a.kind = "inf" /\ b.kind = "num" -> TRUE
      [] OTHER -> FALSE

\* max(list): the first element, replaced by each later one that is greater
RECURSIVE PyMax(_, _)
PyMax(list, k) ==
    IF k = 1 THEN list[1]
    ELSE Bind(PyMax(list, k - 1),
              LAMBDA m : IF Greater(list[k], m) THEN list[k] ELSE m)

\* The sum of the first k numbers of a list
RECURSIVE SumOf(_, _)
SumOf(list, k) ==
    IF k = 0 THEN Rat(0, 1)
    ELSE Bind(SumOf(list, k - 1),
              LAMBDA s : Rat(s.n * list[k].d + list[k].n * s.d, s.d * list[k].d))

\* DataFrame.mean(axis=1) of a row: the mean of its cells that are not missing
RowMean(values) ==
    Bind(SelectSeq(values, IsNumber), LAMBDA present :
        IF Len(present) = 0 THEN NaN
        ELSE Bind(SumOf(present, Len(present)),
                  LAMBDA total : Rat(total.n, total.d * Len(present))))

\* abs(v - mean) * 100 / mean of numpy floats: no exception on a zero mean
PercentOff(v, mean) ==
    IF ~IsNumber(v) \/ ~IsNumber(mean) THEN NaN
    ELSE LET num == Abs(v.n * mean.d - mean.n * v.d) * 100 * mean.d
             den == v.d * mean.d * mean.n
         IN  IF den = 0 THEN (IF num = 0 THEN NaN ELSE Inf)
             ELSE IF den < 0 THEN Rat(-num, -den) ELSE Rat(num, den)

\* max(diff) of _diff for the three phase voltages of a row and their mean
MaxPercentOff(phases, mean) ==
    Bind([p \in 1..Len(phases) |-> PercentOff(phases[p], mean)],
         LAMBDA diff : PyMax(diff, Len(diff)))

\* The columns mean_voltage_ABC and diff_with_mean added to the voltages
WithUnbalance(table) ==
    [i \in 1..Len(table) |->
        Bind(<< table[i].cells["voltage_A"], table[i].cells["voltage_B"],
                table[i].cells["voltage_C"] >>, LAMBDA phases :
        Bind(RowMean(phases), LAMBDA mean :
            [table[i] EXCEPT !.cells =
                SetCell(SetCell(@, "mean_voltage_ABC", mean),
                        "diff_with_mean", MaxPercentOff(phases, mean))]))]

\* get_unbalanced_line(devices)
GetUnbalancedLineTable(h, ref, sd, n, identical) ==
    Bind(GetVoltageTable(h, ref, FALSE, sd, n, identical), LAMBDA v :
        IF v.raised THEN v
        ELSE [v EXCEPT !.heap = [v.heap EXCEPT ![v.ref] = WithUnbalance(@)]])

-----------------------------------------------------------------------------
(* The calls of the listing and query functions *)

\* The caller is between two calls.
Idle == pc = "idle"

\* The function that ended, by returning or by raising, hands control back to
\* its caller, who keeps the session and the tables it holds.
ReturnToCaller ==
    /\ pc \in {"done", "raised"}
    /\ op' = "none"
    /\ pc' = "idle"
    /\ args' = NoArgs
    /\ locals' = NoArgs
    /\ ret' = NoTable
    /\ calls' = <<>>
    /\ passed' = <<>>
    /\ UNCHANGED <<networks, nobjs, seed, files, heap>>

\* A call of function f with arguments a whose execution is r: it returns the
\* table r.ref, or it raises and the caller is left with the tables it had.
TableCall(f, a, r) ==
    /\ Idle
    /\ Len(heap) < MaxTables
    /\ op' = f
    /\ args' = a
    /\ locals' = NoArgs
    /\ calls' = r.calls
    /\ passed' = IF "frame" \in DOMAIN a THEN heap[a.frame] ELSE <<>>
    /\ IF r.raised
       THEN pc' = "raised" /\ ret' = NoTable /\ heap' = SubSeq(r.heap, 1, Len(heap))
       ELSE pc' = "done" /\ ret' = r.ref /\ heap' = r.heap
    /\ UNCHANGED <<networks, nobjs, seed, files>>

ListDevices ==
    \E device_type \in {0, CustomerLoadDeviceType} :
        TableCall("list_devices", [device_type |-> device_type],
                  ListDevicesTable(heap, device_type, nobjs))

ListNodes ==
    \E identical \in BOOLEAN :
        TableCall("list_nodes", NoArgs, ListNodesTable(heap, seed, nobjs, identical))

GetVoltage ==
    \E frame \in DOMAIN heap, is_node \in BOOLEAN, identical \in BOOLEAN :
        TableCall("get_voltage", [frame |-> frame, is_node |-> is_node],
                  GetVoltageTable(heap, frame, is_node, seed, nobjs, identical))

GetOverload ==
    \E frame \in DOMAIN heap, identical \in BOOLEAN :
        TableCall("get_overload", [frame |-> frame],
                  GetOverloadTable(heap, frame, seed, nobjs, identical))

GetLoad ==
    \E frame \in DOMAIN heap, identical \in BOOLEAN :
        TableCall("get_load", [frame |-> frame],
                  GetLoadTable(heap, frame, seed, nobjs, identical))

GetDistance ==
    \E frame \in DOMAIN heap, identical \in BOOLEAN :
        TableCall("get_distance", [frame |-> frame],
                  GetDistanceTable(heap, frame, seed, nobjs, identical))

GetCoordinates ==
    \E frame \in DOMAIN heap, identical \in BOOLEAN :
        TableCall("get_coordinates", [frame |-> frame],
                  GetCoordinatesTable(heap, frame, seed, nobjs, identical))

GetUnbalancedLine ==
    \E frame \in DOMAIN heap, identical \in BOOLEAN :
        TableCall("get_unbalanced_line", [frame |-> frame],
                  GetUnbalancedLineTable(heap, frame, seed, nobjs, identical))

\* Between two queries the caller may run a load allocation.
CallLoadAllocation ==
    /\ Idle
    /\ heap # <<>>
    /\ op' = "load_allocation"
    /\ pc' = "start"
    /\ args' = [values |-> Dict(LaNames, 2500)]
    /\ locals' = NoArgs
    /\ calls' = <<>>
    /\ ret' = NoTable
    /\ passed' = <<>>
    /\ UNCHANGED <<networks, nobjs, seed, files, heap>>

InitTables ==
    /\ op = "none" /\ pc = "idle"
    /\ args = NoArgs
    /\ locals = NoArgs
    /\ ret = NoTable
    /\ networks = <<"feeder1">>
    /\ nobjs \in 0..MaxObjs
    /\ seed \in SolverOutcomes
    /\ calls = <<>>
    /\ files = {}
    /\ heap = <<>>
    /\ passed = <<>>

NextTables ==
    \/ ListDevices
    \/ ListNodes
    \/ GetVoltage
    \/ GetOverload
    \/ GetLoad
    \/ GetDistance
    \/ GetCoordinates
    \/ GetUnbalancedLine
    \/ CallLoadAllocation
    \/ NextLa
    \/ ReturnToCaller

SpecTables == InitTables /\ [][NextTables]_vars

Init == InitSim \/ InitTables

Next == NextSim \/ NextTables

Spec == Init /\ [][Next]_vars

-----------------------------------------------------------------------------
(* Properties of the operations that drive the simulation *)

Returned(f) == op = f /\ pc = "done"

\* A reply that Python takes as false: the empty string, the number 0, None.
FalsyReply(reply) ==
    \/ reply.kind = "str" /\ reply.s = <<>>
    \/ reply.kind = "num" /\ reply.n = 0
    \/ reply.kind = "none"

Stage(c) ==
    CASE c.api = "Open" -> 0
      [] c.api \in {"ListNetworks", "SetValueTopo", "LoadAllocation.SetDemand"} -> 1
      [] c.obj = "MY_LOAD_" -> 2
      [] c.obj = "my_pv_" -> 3
      [] c.api \in {"LoadFlow.Run", "LoadAllocation.Run"} -> 4
      [] OTHER -> 5

IsWrite(c) ==
    c.api \in {"SetValueTopo", "SetValueDevice", "Device.SetValue", "AddDevice",
               "LoadAllocation.SetDemand"}

Count(log, api) == Cardinality({i \in 1..Len(log) : log[i].api = api})

CountOf(log, api, obj) ==
    Cardinality({i \in 1..Len(log) : log[i].api = api /\ log[i].obj = obj})

\* C3: the calls of fmu_wrapper come in the order Open, source voltages, load
\* devices, PV devices, one load-flow run, output queries; nothing is written
\* before Open or after the run; a call that returns has opened the model once,
\* added every load and PV device and run the load flow exactly once.  In
\* load_allocation the demand and the three voltages are set before the one run.
C3_CallOrder ==
    /\ op \in {"fmu_wrapper", "load_allocation"} =>
         /\ \A i, j \in 1..Len(calls) : i < j => Stage(calls[i]) <= Stage(calls[j])
         /\ \A i, j \in 1..Len(calls) : Stage(calls[i]) = 4 /\ i < j => ~IsWrite(calls[j])
         /\ Count(calls, "LoadFlow.Run") + Count(calls, "LoadAllocation.Run") <= 1
    /\ op = "fmu_wrapper" /\ calls # <<>> => calls[1].api = "Open"
    /\ op = "fmu_wrapper" /\ calls = <<>> => pc = "start"
    /\ Returned("fmu_wrapper") =>
         /\ Count(calls, "Open") = 1
         /\ Count(calls, "SetValueTopo") = 3
         /\ CountOf(calls, "AddDevice", "MY_LOAD_") = Len(locals.loads)
         /\ CountOf(calls, "AddDevice", "my_pv_") = Len(locals.pvs)
         /\ Count(calls, "LoadFlow.Run") = 1
         /\ Count(calls, "QueryInfoNode") = Len(ret)
    /\ Returned("load_allocation") =>
         /\ Count(calls, "LoadAllocation.SetDemand") = 1
         /\ Count(calls, "SetValueTopo") = 3
         /\ Count(calls, "LoadAllocation.Run") = 1
         /\ calls[Len(calls)].api = "LoadAllocation.Run"

\* C3 witness: a call of fmu_wrapper with a load, a PV and outputs has returned.
C3_Witness ==
    /\ Returned("fmu_wrapper")
    /\ Len(locals.loads) > 0 /\ Len(locals.pvs) > 0 /\ Len(ret) > 0

\* The value given for name: the last one paired with it in the lists.
GivenVoltage(name) ==
    IF op = "load_allocation" THEN args.values[name]
    ELSE LET m == Min(Len(args.voltage_names), Len(args.voltage_values))
             i == CHOOSE i \in 1..m :
                    args.voltage_names[i] = name
                    /\ \A j \in (i + 1)..m : args.voltage_names[j] # name
         IN  args.voltage_values[i]

TopoWrites == SelectSeq(calls, LAMBDA c : c.api = "SetValueTopo")

VmagNames == <<"VMAG_A", "VMAG_B", "VMAG_C">>

OperatingVoltageKeys ==
    << "Sources[0].EquivalentSourceModels[0].EquivalentSource.OperatingVoltage1",
       "Sources[0].EquivalentSourceModels[0].EquivalentSource.OperatingVoltage2",
       "Sources[0].EquivalentSourceModels[0].EquivalentSource.OperatingVoltage3" >>

\* C4: fmu_wrapper and load_allocation write OperatingVoltage1, 2, 3 of the
\* first source of the first listed network as VMAG_A, VMAG_B, VMAG_C divided
\* by 1000; they write no voltage to another network and nothing else to the
\* topology, so that the VANG inputs reach nothing in the session.
C4_SourceVoltages ==
    op \in {"fmu_wrapper", "load_allocation"} =>
        /\ \A k \in 1..Len(TopoWrites) :
              /\ k <= 3
              /\ TopoWrites[k].obj = networks[1]
              /\ TopoWrites[k].key = OperatingVoltageKeys[k]
              /\ TopoWrites[k].val.kind = "num"
              /\ TopoWrites[k].val.n * 1000 = GivenVoltage(VmagNames[k]) * TopoWrites[k].val.d
        /\ pc \in {"voltages_set", "loads_added", "pvs_added", "flow_run",
                   "results_written", "inputs_set", "done"} => Len(TopoWrites) = 3

\* C4 witness: fmu_wrapper has returned, two networks being listed and a
\* voltage given that is no multiple of 1000 V.
C4_Witness ==
    /\ Returned("fmu_wrapper")
    /\ Len(networks) = 2
    /\ Len(TopoWrites) = 3
    /\ GivenVoltage("VMAG_A") % 1000 # 0

\* C5 (as claimed): with write_result 'True', 'true' or '1' the results are on
\* the file system once the load flow has run; with any other value nothing is
\* written.
C5_ResultsSavedWhenAsked ==
    op = "fmu_wrapper" /\ pc \in {"results_written", "done"} =>
        IF args.write_result \in {"True", "true", "1"} THEN files # {} ELSE files = {}

\* The attributes written on devices by the calls of a log.
AttributesWritten(log) ==
    { <<log[i].obj, log[i].objidx, log[i].key, log[i].keyidx>> :
        i \in {j \in 1..Len(log) : log[j].api \in {"SetValueDevice", "Device.SetValue"}} }

OtherParameterNames(name) == {"KW", "KVAR", "KVA"} \ {name}

\* C6 (as claimed): the parameter name of a load or PV decides the attribute
\* its value is written to: the same call with only that name changed writes
\* other attributes than this call did.
C6_ParameterNameSelectsAttribute ==
    Returned("fmu_wrapper") =>
        /\ \A i \in 1..Len(locals.loads) :
              \A other \in OtherParameterNames(locals.loads[i].parameter_name) :
                 AttributesWritten(
                     AddLoads([locals.loads EXCEPT ![i].parameter_name = other], 1).calls)
                 # AttributesWritten(SelectSeq(calls, LAMBDA c : c.obj = "MY_LOAD_"))
        /\ \A i \in 1..Len(locals.pvs) :
              \A other \in OtherParameterNames(locals.pvs[i].parameter_name) :
                 AttributesWritten(AddPvs([locals.pvs EXCEPT ![i].parameter_name = other]))
                 # AttributesWritten(SelectSeq(calls, LAMBDA c : c.obj = "my_pv_"))

\* C7 (as claimed): add_pv returns a new photovoltaic device on section_id with
\* ns panels in series, np panels in parallel and Location = location.
C7_AddPvSetsPanels ==
    Returned("add_pv") =>
        /\ ret.device_type = PhotovoltaicType
        /\ ret.section_id = args.section_id
        /\ ret.attrs.Ns = args.ns
        /\ ret.attrs.Np = args.np
        /\ ret.attrs.Location = args.location

-----------------------------------------------------------------------------
(* Properties of the listing and query functions *)

TableQueryOps ==
    {"list_nodes", "get_voltage", "get_overload", "get_load", "get_distance",
     "get_coordinates"}

TableOps == (TableQueryOps \cup {"get_unbalanced_line"}) \ {"list_nodes"}

\* The attribute queries the executing function made that the simulator failed.
FailedQueries ==
    {i \in 1..Len(calls) :
        /\ calls[i].api \in {"QueryInfoNode", "QueryInfoDevice"}
        /\ calls[i].key # "Phase"
        /\ QueryInfo(seed, nobjs, calls[i].key, calls[i].objidx).kind = "raise"}

Ended == pc \in {"done", "raised"}

\* C1 (as claimed): in fmu_wrapper's output extraction, list_nodes and the
\* get_* functions a failing attribute query does not abort the operation.
C1_FailedQueryNeverAborts ==
    op \in TableQueryOps \cup {"fmu_wrapper"} /\ Ended /\ FailedQueries # {} => pc = "done"

\* C1 (amended): only fmu_wrapper's output extraction swallows a failing
\* query, putting 0 where the value would have been; in list_nodes and the
\* get_* functions the failure raises out of the function, which returns no
\* table.
C1_OnlyOutputExtractionSwallows ==
    /\ op = "fmu_wrapper" /\ Ended /\ FailedQueries # {} =>
          /\ pc = "done"
          /\ \A i \in 1..Len(ret) :
                QueryInfo(seed, nobjs, args.output_names[i], args.output_nodes[i]).kind = "raise"
                    => ret[i] = Num(0)
    /\ op \in TableQueryOps \cup {"get_unbalanced_line"} /\ Ended /\ FailedQueries # {} =>
          /\ pc = "raised"
          /\ ret = NoTable
          /\ FailedQueries = {Len(calls)}

\* C1 witness: a query of get_voltage failed and the call raised.
C1_Witness ==
    /\ op = "get_voltage" /\ pc = "raised"
    /\ FailedQueries # {}
    /\ Len(calls) > 3

\* The result columns of the function that was executed
ResultColumns ==
    LET names(specs) == {specs[k][1] : k \in 1..Len(specs)}
    IN  CASE op = "get_voltage" -> names(VoltageColumns)
          [] op = "get_overload" -> names(OverloadColumns)
          [] op = "get_load" -> names(LoadColumns)
          [] op = "get_distance" -> names(DistanceColumns)
          [] op = "get_coordinates" -> names(CoordinateColumns)
          [] op = "get_unbalanced_line" ->
                names(VoltageColumns) \cup {"mean_voltage_ABC", "diff_with_mean"}
          [] OTHER -> {}

\* The table passed is as it was, the table returned is another one with the
\* same rows in the same order, and the session was only queried.
SameRowsNoWrites ==
    /\ heap[args.frame] = passed
    /\ ret # args.frame
    /\ Len(heap[ret]) = Len(passed)
    /\ \A i \in 1..Len(passed) : heap[ret][i].Index = passed[i].Index
    /\ \A i \in 1..Len(calls) : calls[i].api \in {"QueryInfoNode", "QueryInfoDevice"}

ReplyNumber(reply) ==
    CASE reply = Str(<<1, Dot, 5>>) -> Rat(3, 2)
      [] reply = Str(<<0>>) -> Rat(0, 1)
      [] reply = Str(<<7>>) -> Rat(7, 1)
      [] reply = Str(<<1, 2>>) -> Rat(12, 1)
      [] OTHER -> Rat(reply.n, reply.d)

\* The numeric result columns of the function executed: column, keyword,
\* what the reply is divided by.
NumericColumns ==
    LET plain(specs) == {<<specs[k][1], specs[k][2], 1>> : k \in 1..Len(specs)}
        position == { <<"latitude", "CoordY", 126000>>, <<"longitude", "CoordX", 100000>> }
    IN  CASE op = "list_nodes" -> position \cup { <<"distance", "Distance", 1>> }
          [] op = "get_voltage" -> plain(VoltageColumns)
          [] op = "get_overload" -> plain(OverloadColumns)
          [] op = "get_load" -> plain(LoadColumns)
          [] op = "get_distance" -> plain(DistanceColumns)
          [] op = "get_coordinates" -> position
          [] OTHER -> {}

\* The simulator's object a row of a returned table is about
RowId(row) ==
    IF op = "list_nodes" \/ (op = "get_voltage" /\ args.is_node)
    THEN row.cells["node_id"].n
    ELSE row.cells["device_number"].n

\* C9: in a table returned by list_nodes or a get_* function every numeric
\* result cell is missing exactly when the simulator replied the empty string,
\* and is else the number it replied (latitude divided by 126000, longitude
\* by 100000): the 0 the column was created with remains in no row.
C9_CellsHoldReplies ==
    op \in TableQueryOps /\ pc = "done" =>
        \A i \in 1..Len(heap[ret]) : \A col \in NumericColumns :
            LET cell == heap[ret][i].cells[col[1]]
                reply == QueryInfo(seed, nobjs, col[2], RowId(heap[ret][i]))
            IN  /\ reply.kind \in {"str", "num"}
                /\ cell = None <=> reply = Str(<<>>)
                /\ cell # None =>
                      /\ cell.kind = "num"
                      /\ cell.n * ReplyNumber(reply).d * col[3] = ReplyNumber(reply).n * cell.d

\* C9 witness: list_nodes returned a row with a missing latitude and a
\* distance that is not 0.
C9_Witness ==
    /\ op = "list_nodes" /\ pc = "done"
    /\ \E i \in 1..Len(heap[ret]) :
          /\ heap[ret][i].cells["latitude"] = None
          /\ heap[ret][i].cells["distance"].kind = "num"
          /\ heap[ret][i].cells["distance"].n # 0

====
